---------------------------- MODULE Spec2Model ----------------------------
(***************************************************************************)
(* Flight-network reference data service (src/main.cpp): the in-memory     *)
(* entity store (airlines, airports, routes with their ID / IATA indexes), *)
(* the adjacency index routesFromSrc, the one-hop search and the add /     *)
(* update request handlers.                                                *)
(*                                                                         *)
(* Conventions of the model                                                *)
(*  - a std::string is a sequence of one-character strings, so that trim   *)
(*    and toUpper are computed character by character;                     *)
(*  - a std::vector is a sequence; C++ index i is position i+1;            *)
(*  - an unordered_map is a function whose DOMAIN is the set of keys;      *)
(*  - a pointer that may be NULL, and an optional JSON member, is a        *)
(*    sequence of length 0 (NULL / absent) or 1;                           *)
(*  - geographic coordinates are whole degrees, multiples of 90, where the *)
(*    haversine formula is exact in units of a quarter great circle.       *)
(***************************************************************************)
EXTENDS Integers, Sequences, FiniteSets, TLC

VARIABLES
    airlines,            \* std::vector<Airline>
    airports,            \* std::vector<Airport>
    routes,              \* std::vector<Route>
    airlineIdToIndex,    \* unordered_map<int, size_t>
    airlineIataToIndex,  \* unordered_map<string, size_t>
    airportIdToIndex,    \* unordered_map<int, size_t>
    airportIataToIndex,  \* unordered_map<string, size_t>
    routesFromSrc,       \* unordered_map<int, vector<size_t>>
    resp,                \* the response of the request handled last
    thr                  \* per worker thread: the handler it is inside, its locals

vars == <<airlines, airports, routes, airlineIdToIndex, airlineIataToIndex,
          airportIdToIndex, airportIataToIndex, routesFromSrc, resp, thr>>

airlineVars == <<airlines, airlineIdToIndex, airlineIataToIndex>>
airportVars == <<airports, airportIdToIndex, airportIataToIndex>>
routeVars == <<routes, routesFromSrc>>

-----------------------------------------------------------------------------
(* Bounds of the model *)

MaxRoutes == 3
MaxLoadRoutes == 2
MaxItineraries == 4
MaxRecords == 2

-----------------------------------------------------------------------------
(* Containers *)

Opt(S) == {<<>>} \cup {<<x>> : x \in S}

\* m[k] = v of an unordered_map (inserting k when absent)
MapPut(m, k, v) == [x \in (DOMAIN m) \cup {k} |-> IF x = k THEN v ELSE m[x]]

\* m.erase(k)
MapErase(m, k) == [x \in (DOMAIN m) \ {k} |-> m[x]]

EmptyMap == [x \in {} |-> 0]

-----------------------------------------------------------------------------
(* Utility helpers *)

BackslashN == <<"\\", "N">>

isspace(c) == c = " "

toupperChar(c) ==
    CASE c = "a" -> "A"
      [] c = "b" -> "B"
      [] c = "c" -> "C"
      [] c = "y" -> "Y"
      [] OTHER -> c

toUpper(s) == [i \in 1..Len(s) |-> toupperChar(s[i])]

trim(s) ==
    LET nonSpace == {i \in 1..Len(s) : ~isspace(s[i])}
    IN  IF nonSpace = {} THEN <<>>
        ELSE LET start == CHOOSE i \in nonSpace : \A j \in nonSpace : i <= j
                 end == CHOOSE i \in nonSpace : \A j \in nonSpace : j <= i
             IN  SubSeq(s, start, end)

\* !iata.empty() && iata != "\\N": the codes that get an index entry
Indexable(iata) == iata # <<>> /\ iata # BackslashN

-----------------------------------------------------------------------------
(* Loaders.  A file is a sequence of rows whose fields are already split;    *)
(* a row whose key field is "\N" or empty, or that has too few fields, has   *)
(* the key <<>> (airlines, airports) or malformed = TRUE (routes) and is     *)
(* skipped.                                                                   *)

EmptyStore == [recs |-> <<>>, byId |-> EmptyMap, byIata |-> EmptyMap]

RECURSIVE loadAirlinesFrom(_, _, _)
loadAirlinesFrom(rows, k, st) ==
    IF k > Len(rows) THEN st
    ELSE LET row == rows[k]
         IN  IF row.id = <<>> THEN loadAirlinesFrom(rows, k + 1, st)
             ELSE LET a == [id |-> row.id[1],
                            iata |-> toUpper(trim(row.iata)),
                            name |-> trim(row.name),
                            country |-> trim(row.country),
                            active |-> trim(row.active) \in {<<"Y">>, <<"y">>, <<"1">>}]
                      index == Len(st.recs) + 1
                  IN  loadAirlinesFrom(rows, k + 1,
                        [recs |-> Append(st.recs, a),
                         byId |-> MapPut(st.byId, a.id, index),
                         byIata |-> IF Indexable(a.iata)
                                    THEN MapPut(st.byIata, a.iata, index)
                                    ELSE st.byIata])

loadAirlines(rows) == loadAirlinesFrom(rows, 1, EmptyStore)

RECURSIVE loadAirportsFrom(_, _, _)
loadAirportsFrom(rows, k, st) ==
    IF k > Len(rows) THEN st
    ELSE LET row == rows[k]
         IN  IF row.id = <<>> THEN loadAirportsFrom(rows, k + 1, st)
             ELSE LET a == [id |-> row.id[1],
                            iata |-> toUpper(trim(row.iata)),
                            name |-> trim(row.name),
                            city |-> trim(row.city),
                            country |-> trim(row.country),
                            latitude |-> row.latitude,
                            longitude |-> row.longitude]
                      index == Len(st.recs) + 1
                  IN  loadAirportsFrom(rows, k + 1,
                        [recs |-> Append(st.recs, a),
                         byId |-> MapPut(st.byId, a.id, index),
                         byIata |-> IF Indexable(a.iata)
                                    THEN MapPut(st.byIata, a.iata, index)
                                    ELSE st.byIata])

loadAirports(rows) == loadAirportsFrom(rows, 1, EmptyStore)

BucketPush_Overwrite(adj, src, index) == MapPut(adj, src, <<index>>)

\* routesFromSrc[src].push_back(index): operator[] creates the bucket
BucketPush(adj, src, index) ==
    MapPut(adj, src, Append(IF src \in DOMAIN adj THEN adj[src] ELSE <<>>, index))

RECURSIVE loadRoutesFrom(_, _, _)
loadRoutesFrom(rows, k, st) ==
    IF k > Len(rows) THEN st
    ELSE LET row == rows[k]
         IN  IF row.malformed THEN loadRoutesFrom(rows, k + 1, st)
             ELSE LET r == [airlineId |-> row.airlineId,
                            srcAirportId |-> row.srcAirportId,
                            dstAirportId |-> row.dstAirportId,
                            stops |-> row.stops]
                      index == Len(st.recs) + 1
                  IN  loadRoutesFrom(rows, k + 1,
                        [recs |-> Append(st.recs, r),
                         adj |-> BucketPush(st.adj, r.srcAirportId, index)])

loadRoutes(rows) == loadRoutesFrom(rows, 1, [recs |-> <<>>, adj |-> EmptyMap])

-----------------------------------------------------------------------------
(* Lookup helpers: <<>> is NULL, <<rec>> a pointer to the record *)

findAirlineByIata(iataRaw) ==
    LET iata == toUpper(iataRaw)
    IN  IF iata \in DOMAIN airlineIataToIndex
        THEN <<airlines[airlineIataToIndex[iata]]>> ELSE <<>>

findAirportByIata(iataRaw) ==
    LET iata == toUpper(iataRaw)
    IN  IF iata \in DOMAIN airportIataToIndex
        THEN <<airports[airportIataToIndex[iata]]>> ELSE <<>>

findAirportById(id) ==
    IF id \in DOMAIN airportIdToIndex
    THEN <<airports[airportIdToIndex[id]]>> ELSE <<>>

findAirlineById(id) ==
    IF id \in DOMAIN airlineIdToIndex
    THEN <<airlines[airlineIdToIndex[id]]>> ELSE <<>>

-----------------------------------------------------------------------------
(* Distance.  With every latitude in {-90, 0, 90} and every longitude a      *)
(* multiple of 90 the haversine term h is 0, 1/2 or 1 and the central angle  *)
(* c = 2 atan2(sqrt h, sqrt(1-h)) is 0, pi/2 or pi: distances are whole      *)
(* multiples of a quarter great circle.                                      *)

\* R_km * (pi/2) * 0.621371, in whole miles
QuarterCircleMiles == 6218

\* 2 * sin(d/2)^2 for d a multiple of 90 degrees
TwiceSinSqHalf(d) ==
    LET m == d % 360
    IN  CASE m = 0 -> 0 [] m = 90 -> 1 [] m = 180 -> 2 [] m = 270 -> 1

\* cos(lat) for lat in {-90, 0, 90}
CosDeg(lat) == IF lat = 0 THEN 1 ELSE 0

greatCircleMiles(a, b) ==
    LET dlat == b.latitude - a.latitude
        dlon == b.longitude - a.longitude
        h2 == TwiceSinSqHalf(dlat)
              + CosDeg(a.latitude) * CosDeg(b.latitude) * TwiceSinSqHalf(dlon)
    IN  QuarterCircleMiles * h2

-----------------------------------------------------------------------------
(* std::sort and JSON lists *)

RECURSIVE Flatten(_)
Flatten(ss) == IF ss = <<>> THEN <<>> ELSE Head(ss) \o Flatten(Tail(ss))

\* The orders of the positions S in which no later key is less than an earlier one
RECURSIVE SortedOrders(_, _)
SortedOrders(key, S) ==
    IF S = {} THEN {<<>>}
    ELSE LET least == {i \in S : \A j \in S : ~(key[j] < key[i])}
         IN  UNION {{<<i>> \o rest : rest \in SortedOrders(key, S \ {i})} : i \in least}

\* Every outcome std::sort may produce on v for a comparator that is "<" on
\* key: a permutation of v ordered by key; the relative order of elements
\* with equivalent keys is unspecified (std::sort is not a stable sort).
StdSortBy(v, key) ==
    {[k \in 1..Len(v) |-> v[p[k]]] : p \in SortedOrders(key, 1..Len(v))}

StdSortByTotal_LeftAsFound(v) == {v}

\* std::sort(results.begin(), results.end(), a.totalMiles < b.totalMiles)
StdSortByTotal(v) == StdSortBy(v, [i \in 1..Len(v) |-> v[i].totalMiles])

\* A crow JSON list filled by arr[i] = item for the entries that are <<item>>
\* and not assigned for the entries that are <<>>: assigning index i resizes
\* the list to i + 1 elements, the unassigned ones staying null (<<>>).
JsonList(entries) ==
    LET assigned == {i \in 1..Len(entries) : entries[i] # <<>>}
    IN  IF assigned = {} THEN <<>>
        ELSE SubSeq(entries, 1, CHOOSE i \in assigned : \A j \in assigned : j <= i)

-----------------------------------------------------------------------------
(* /one-hop *)

\* if (r1.stops != 0) continue;
firstLegAccepted(r1) == r1.stops = 0

secondLegAccepted_IgnoreStops(r2, dstId) == r2.dstAirportId = dstId

secondLegAccepted_IgnoreDestination(r2, dstId) == r2.stops = 0

\* if (r2.stops != 0) continue; if (r2.dstAirportId != dstId) continue;
secondLegAccepted(r2, dstId) == r2.stops = 0 /\ r2.dstAirportId = dstId

\* The inner loop of the search: second legs out of mid for first leg r1.
\* leg1Route and leg2Route (the Route table positions of the two legs) are
\* not fields of OneHopRoute; they record which routes made the itinerary.
oneHopSecondLegs(srcAirport, dstAirport, i1, midAirport) ==
    LET r1 == routes[i1]
        midId == r1.dstAirportId
        outRoutes2 == routesFromSrc[midId]
    IN  Flatten([j \in 1..Len(outRoutes2) |->
          LET r2 == routes[outRoutes2[j]]
          IN  IF ~secondLegAccepted(r2, dstAirport.id) THEN <<>>
              ELSE LET leg1 == greatCircleMiles(srcAirport, midAirport)
                       leg2 == greatCircleMiles(midAirport, dstAirport)
                   IN  << [viaAirportId |-> midId,
                           leg1Miles |-> leg1,
                           leg2Miles |-> leg2,
                           totalMiles |-> leg1 + leg2,
                           airline1 |-> findAirlineById(r1.airlineId),
                           airline2 |-> findAirlineById(r2.airlineId),
                           leg1Route |-> i1,
                           leg2Route |-> outRoutes2[j]] >>])

\* The outer loop: the results vector before it is sorted
oneHopSearch(srcAirport, dstAirport) ==
    IF srcAirport.id \notin DOMAIN routesFromSrc THEN <<>>
    ELSE LET outRoutes == routesFromSrc[srcAirport.id]
         IN  Flatten([i \in 1..Len(outRoutes) |->
               LET r1 == routes[outRoutes[i]]
                   midId == r1.dstAirportId
                   midAirport == findAirportById(midId)
               IN  IF ~firstLegAccepted(r1) THEN <<>>
                   ELSE IF midAirport = <<>> THEN <<>>
                   ELSE IF midId \notin DOMAIN routesFromSrc THEN <<>>
                   ELSE oneHopSecondLegs(srcAirport, dstAirport,
                                         outRoutes[i], midAirport[1])])

AirlineBrief(al) ==
    IF al = <<>> THEN <<>>
    ELSE <<[id |-> al[1].id, iata |-> al[1].iata, name |-> al[1].name]>>

oneHopRender_SkipUnknownAirline(results) ==
    JsonList([i \in 1..Len(results) |->
      LET oh == results[i]
          midAirport == findAirportById(oh.viaAirportId)
      IN  IF midAirport = <<>> \/ oh.airline1 = <<>> \/ oh.airline2 = <<>> THEN <<>>
          ELSE << [via |-> [id |-> midAirport[1].id, iata |-> midAirport[1].iata],
                   leg1_miles |-> oh.leg1Miles,
                   leg2_miles |-> oh.leg2Miles,
                   total_miles |-> oh.totalMiles,
                   airline1 |-> AirlineBrief(oh.airline1),
                   airline2 |-> AirlineBrief(oh.airline2),
                   leg1Route |-> oh.leg1Route,
                   leg2Route |-> oh.leg2Route] >>])

\* The "routes" list of the response
oneHopRender(results) ==
    JsonList([i \in 1..Len(results) |->
      LET oh == results[i]
          midAirport == findAirportById(oh.viaAirportId)
      IN  IF midAirport = <<>> THEN <<>>
          ELSE << [via |-> [id |-> midAirport[1].id, iata |-> midAirport[1].iata],
                   leg1_miles |-> oh.leg1Miles,
                   leg2_miles |-> oh.leg2Miles,
                   total_miles |-> oh.totalMiles,
                   airline1 |-> AirlineBrief(oh.airline1),
                   airline2 |-> AirlineBrief(oh.airline2),
                   leg1Route |-> oh.leg1Route,
                   leg2Route |-> oh.leg2Route] >>])

\* The returns before the search: <<>> when the handler goes on to search
oneHopEarlyReturn(srcParam, dstParam) ==
    IF srcParam = <<>> \/ dstParam = <<>>
    THEN <<[op |-> "one-hop", status |-> 400,
            msg |-> "Missing 'src' or 'dst' query parameter"]>>
    ELSE IF findAirportByIata(srcParam[1]) = <<>>
    THEN <<[op |-> "one-hop", status |-> 404, msg |-> "Source airport not found"]>>
    ELSE IF findAirportByIata(dstParam[1]) = <<>>
    THEN <<[op |-> "one-hop", status |-> 404, msg |-> "Destination airport not found"]>>
    ELSE <<>>

\* The responses the handler may give once both airports are resolved: one
\* for each outcome of the sort
oneHopAnswers(srcAirport, dstAirport) ==
    {[op |-> "one-hop", status |-> 200,
      source |-> [id |-> srcAirport.id, iata |-> srcAirport.iata],
      destination |-> [id |-> dstAirport.id, iata |-> dstAirport.iata],
      routes |-> oneHopRender(results)] :
        results \in StdSortByTotal(oneHopSearch(srcAirport, dstAirport))}

OneHop(srcParam, dstParam) ==
    /\ UNCHANGED <<airlineVars, airportVars, routeVars, thr>>
    /\ LET early == oneHopEarlyReturn(srcParam, dstParam)
       IN  IF early # <<>> THEN resp' = early[1]
           ELSE LET srcAirport == findAirportByIata(srcParam[1])[1]
                    dstAirport == findAirportByIata(dstParam[1])[1]
                IN  /\ Len(oneHopSearch(srcAirport, dstAirport)) <= MaxItineraries
                    /\ resp' \in oneHopAnswers(srcAirport, dstAirport)

-----------------------------------------------------------------------------
(* /route-add.  body is <<>> for a request body that is not JSON, else a     *)
(* record of optional members.                                               *)

routeAddEarlyReturn_SkipDstCheck(body) ==
    IF body = <<>>
    THEN <<[op |-> "route-add", status |-> 400, msg |-> "Invalid JSON"]>>
    ELSE IF body[1].airline_id = <<>> \/ body[1].src_id = <<>> \/ body[1].dst_id = <<>>
    THEN <<[op |-> "route-add", status |-> 400,
            msg |-> "Missing required fields: airline_id, src_id, dst_id"]>>
    ELSE IF body[1].airline_id[1] \notin DOMAIN airlineIdToIndex
    THEN <<[op |-> "route-add", status |-> 400, msg |-> "Unknown airline_id"]>>
    ELSE IF body[1].src_id[1] \notin DOMAIN airportIdToIndex
    THEN <<[op |-> "route-add", status |-> 400, msg |-> "Unknown src_id"]>>
    ELSE <<>>

\* The returns before the route is stored: <<>> when the request is accepted
routeAddEarlyReturn(body) ==
    IF body = <<>>
    THEN <<[op |-> "route-add", status |-> 400, msg |-> "Invalid JSON"]>>
    ELSE IF body[1].airline_id = <<>> \/ body[1].src_id = <<>> \/ body[1].dst_id = <<>>
    THEN <<[op |-> "route-add", status |-> 400,
            msg |-> "Missing required fields: airline_id, src_id, dst_id"]>>
    ELSE IF body[1].airline_id[1] \notin DOMAIN airlineIdToIndex
    THEN <<[op |-> "route-add", status |-> 400, msg |-> "Unknown airline_id"]>>
    ELSE IF body[1].src_id[1] \notin DOMAIN airportIdToIndex
    THEN <<[op |-> "route-add", status |-> 400, msg |-> "Unknown src_id"]>>
    ELSE IF body[1].dst_id[1] \notin DOMAIN airportIdToIndex
    THEN <<[op |-> "route-add", status |-> 400, msg |-> "Unknown dst_id"]>>
    ELSE <<>>

\* Route r of an accepted request
routeAddRecord(body) ==
    [airlineId |-> body[1].airline_id[1],
     srcAirportId |-> body[1].src_id[1],
     dstAirportId |-> body[1].dst_id[1],
     stops |-> IF body[1].stops # <<>> THEN body[1].stops[1] ELSE 0]

routeAddOk(r) ==
    [op |-> "route-add", status |-> 200,
     route |-> [airline_id |-> r.airlineId, src_id |-> r.srcAirportId,
                dst_id |-> r.dstAirportId, stops |-> r.stops]]

RouteAdd(body) ==
    /\ UNCHANGED <<airlineVars, airportVars, thr>>
    /\ LET early == routeAddEarlyReturn(body)
       IN  IF early # <<>>
           THEN resp' = early[1] /\ UNCHANGED routeVars
           ELSE LET r == routeAddRecord(body)
                    index == Len(routes) + 1
                IN  /\ Len(routes) < MaxRoutes
                    /\ routes' = Append(routes, r)
                    /\ routesFromSrc' = BucketPush(routesFromSrc, r.srcAirportId, index)
                    /\ resp' = routeAddOk(r)

-----------------------------------------------------------------------------
(* Worker threads.  In Spec and SpecStore every request is handled from     *)
(* start to end before the next one starts, and every thread stays idle.    *)

Threads == {1, 2}

IdleThread == [pc |-> "idle"]

-----------------------------------------------------------------------------
(* The route graph and the one-hop search: the data files main() loads and  *)
(* the requests the model draws                                              *)

SeqsUpTo(S, n) == UNION {[1..k -> S] : k \in 0..n}

AirlineRow(id, iata) ==
    [id |-> id, name |-> <<"x">>, iata |-> iata, country |-> <<"u">>,
     active |-> <<"Y">>]

AirportRow(id, iata, lat, lon) ==
    [id |-> id, name |-> <<"p">>, city |-> <<"q">>, country |-> <<"u">>,
     iata |-> iata, latitude |-> lat, longitude |-> lon]

RouteRow(airlineId, srcId, dstId, stops) ==
    [malformed |-> FALSE, airlineId |-> airlineId, srcAirportId |-> srcId,
     dstAirportId |-> dstId, stops |-> stops]

MalformedRouteRow ==
    [malformed |-> TRUE, airlineId |-> 0, srcAirportId |-> 0,
     dstAirportId |-> 0, stops |-> 0]

AirlineFiles == { << AirlineRow(<<1>>, <<"a">>) >> }

\* Airport 30 is in the first file only: routes naming it dangle under the second
AirportFiles ==
    { << AirportRow(<<10>>, <<"a">>, 0, 0), AirportRow(<<20>>, <<" ", "b">>, 0, 90),
         AirportRow(<<30>>, <<"C">>, 0, 180) >>,
      << AirportRow(<<10>>, <<"A">>, 0, 0), AirportRow(<<>>, <<"c">>, 0, 0),
         AirportRow(<<20>>, <<"b">>, 90, 0) >> }

LoadRouteRows ==
    { RouteRow(1, 10, 30, 0), RouteRow(9, 30, 20, 0), RouteRow(1, 30, 10, 0),
      RouteRow(1, 10, 20, 1), MalformedRouteRow }

RouteFiles == SeqsUpTo(LoadRouteRows, MaxLoadRoutes)

\* Well-formed requests over the airline and airports of the files, and one
\* request for each way of being rejected
RouteAddBodies ==
    {<<b>> : b \in [airline_id : {<<1>>}, src_id : {<<10>>, <<20>>, <<30>>},
                    dst_id : {<<10>>, <<20>>, <<30>>}, stops : Opt({0, 1})]}
    \cup {<<>>,
          <<[airline_id |-> <<>>, src_id |-> <<10>>, dst_id |-> <<20>>, stops |-> <<>>]>>,
          <<[airline_id |-> <<9>>, src_id |-> <<10>>, dst_id |-> <<20>>, stops |-> <<>>]>>,
          <<[airline_id |-> <<1>>, src_id |-> <<40>>, dst_id |-> <<20>>, stops |-> <<>>]>>,
          <<[airline_id |-> <<1>>, src_id |-> <<10>>, dst_id |-> <<40>>, stops |-> <<0>>]>>}

OneHopSrcParams == Opt({<<"a">>, <<"z">>})
OneHopDstParams == Opt({<<"a">>, <<"B">>, <<"z">>})

InitLoaded(airlineRows, airportRows, routeRows) ==
    LET al == loadAirlines(airlineRows)
        ap == loadAirports(airportRows)
        rt == loadRoutes(routeRows)
    IN  /\ airlines = al.recs
        /\ airlineIdToIndex = al.byId
        /\ airlineIataToIndex = al.byIata
        /\ airports = ap.recs
        /\ airportIdToIndex = ap.byId
        /\ airportIataToIndex = ap.byIata
        /\ routes = rt.recs
        /\ routesFromSrc = rt.adj
        /\ resp = [op |-> "none", status |-> 0]
        /\ thr = [t \in Threads |-> IdleThread]

Init ==
    \E airlineRows \in AirlineFiles, airportRows \in AirportFiles,
       routeRows \in RouteFiles :
        InitLoaded(airlineRows, airportRows, routeRows)

Next ==
    \/ \E body \in RouteAddBodies : RouteAdd(body)
    \/ \E srcParam \in OneHopSrcParams, dstParam \in OneHopDstParams :
         OneHop(srcParam, dstParam)

Spec == Init /\ [][Next]_vars

-----------------------------------------------------------------------------
(* Properties of the one-hop search and the adjacency index (Spec) *)

OneHopAnswered == resp.op = "one-hop" /\ resp.status = 200

\* The pairs of Route table positions that chain S -> M -> D with zero stops
ZeroStopChains(S, D) ==
    {p \in (1..Len(routes)) \X (1..Len(routes)) :
        /\ routes[p[1]].srcAirportId = S
        /\ routes[p[1]].stops = 0
        /\ routes[p[2]].srcAirportId = routes[p[1]].dstAirportId
        /\ routes[p[2]].stops = 0
        /\ routes[p[2]].dstAirportId = D}

ResolvableChains(S, D) ==
    {p \in ZeroStopChains(S, D) :
        routes[p[1]].dstAirportId \in DOMAIN airportIdToIndex}

ItemLegs(item) == <<item[1].leg1Route, item[1].leg2Route>>

\* C1: a one-hop response holds exactly one itinerary for every pair of
\* zero-stop routes (r1, r2) chaining source -> M -> destination whose
\* intermediate airport M resolves, and nothing else (no null entry, no
\* itinerary of another pair); it is empty when there is no such pair.
C1_OneHopExactlyTheChains ==
    OneHopAnswered =>
        LET chains == ResolvableChains(resp.source.id, resp.destination.id)
            items == resp.routes
        IN  /\ \A k \in 1..Len(items) :
                  items[k] # <<>> /\ ItemLegs(items[k]) \in chains
            /\ \A p \in chains :
                  Cardinality({k \in 1..Len(items) : ItemLegs(items[k]) = p}) = 1

\* An answered search with source = destination that returned an itinerary
\* while a chain through an unresolvable intermediate airport was discarded
C1_Witness ==
    /\ OneHopAnswered
    /\ resp.source.id = resp.destination.id
    /\ Len(resp.routes) >= 1
    /\ ZeroStopChains(resp.source.id, resp.destination.id)
         # ResolvableChains(resp.source.id, resp.destination.id)

\* C2: no itinerary of a one-hop response has a leg whose Route has stops # 0.
C2_OnlyZeroStopLegs ==
    OneHopAnswered =>
        \A k \in 1..Len(resp.routes) :
            /\ resp.routes[k] # <<>>
            /\ routes[resp.routes[k][1].leg1Route].stops = 0
            /\ routes[resp.routes[k][1].leg2Route].stops = 0

\* An answered, non-empty search while a route with stops # 0 leads out of the
\* source and another one leads into the destination
C2_Witness ==
    /\ OneHopAnswered
    /\ Len(resp.routes) >= 1
    /\ \E i, j \in 1..Len(routes) :
          /\ routes[i].stops # 0 /\ routes[i].srcAirportId = resp.source.id
          /\ routes[j].stops = 0 /\ routes[j].srcAirportId = routes[i].dstAirportId
          /\ routes[j].dstAirportId = resp.destination.id

\* C3: a one-hop response is sorted non-decreasing by total miles.
C3_SortedByTotal ==
    OneHopAnswered =>
        \A k \in 1..(Len(resp.routes) - 1) :
            /\ resp.routes[k] # <<>> /\ resp.routes[k + 1] # <<>>
            /\ resp.routes[k][1].total_miles <= resp.routes[k + 1][1].total_miles
            /\ resp.routes[k][1].total_miles
                 = resp.routes[k][1].leg1_miles + resp.routes[k][1].leg2_miles

\* An answered search whose itineraries were found in an order that is not
\* the order of their totals
C3_Witness ==
    /\ OneHopAnswered
    /\ Len(resp.routes) >= 2
    /\ LET found == oneHopSearch(findAirportByIata(resp.source.iata)[1],
                                 findAirportByIata(resp.destination.iata)[1])
       IN  \E k \in 1..(Len(found) - 1) :
               found[k].totalMiles > found[k + 1].totalMiles

\* The order in which the search finds itineraries: by first leg, then by
\* second leg, each in the insertion order of the Route table
FoundBefore(a, b) ==
    \/ a[1].leg1Route < b[1].leg1Route
    \/ a[1].leg1Route = b[1].leg1Route /\ a[1].leg2Route < b[1].leg2Route

\* C4 (as claimed): itineraries of equal total appear in the order in which
\* the search found them.
C4_TiesInDiscoveryOrder ==
    OneHopAnswered =>
        \A k, l \in 1..Len(resp.routes) :
            (k < l /\ resp.routes[k][1].total_miles = resp.routes[l][1].total_miles)
                => FoundBefore(resp.routes[k], resp.routes[l])

\* C5: the adjacency index is consistent with the Route table: every Route
\* position is in exactly one bucket entry, in the bucket of its source
\* airport; every bucket entry is a Route position; every bucket is in
\* insertion order.
C5_AdjacencyConsistent ==
    LET entries == {e \in (DOMAIN routesFromSrc) \X (1..Len(routes)) :
                        e[2] \in DOMAIN routesFromSrc[e[1]]}
        entriesOf(i) == {e \in (DOMAIN routesFromSrc) \X (1..(Len(routes) + 1)) :
                            /\ e[2] \in DOMAIN routesFromSrc[e[1]]
                            /\ routesFromSrc[e[1]][e[2]] = i}
    IN  /\ \A i \in 1..Len(routes) :
              /\ Cardinality(entriesOf(i)) = 1
              /\ \A e \in entriesOf(i) : e[1] = routes[i].srcAirportId
        /\ \A s \in DOMAIN routesFromSrc :
              /\ Len(routesFromSrc[s]) <= Len(routes)
              /\ \A n \in DOMAIN routesFromSrc[s] :
                    routesFromSrc[s][n] \in 1..Len(routes)
              /\ \A n, m \in DOMAIN routesFromSrc[s] :
                    n < m => routesFromSrc[s][n] < routesFromSrc[s][m]

\* A rejected route-add after loaded and added routes filled a bucket with
\* several routes
C5_Witness ==
    /\ resp.op = "route-add" /\ resp.status = 400
    /\ Len(routes) = MaxRoutes
    /\ \E s \in DOMAIN routesFromSrc : Len(routesFromSrc[s]) >= 2
    /\ \E s \in DOMAIN routesFromSrc : s \notin DOMAIN airportIdToIndex

-----------------------------------------------------------------------------
(* /airline-add and /airline-update.  body is <<>> for a request body that  *)
(* is not JSON, else a record of optional members.                          *)

airlineIdTaken_Never(id) == FALSE

\* airlineIdToIndex.find(id) != airlineIdToIndex.end()
airlineIdTaken(id) == id \in DOMAIN airlineIdToIndex

AirlineEcho(a) ==
    [id |-> a.id, iata |-> a.iata, name |-> a.name, country |-> a.country,
     active |-> a.active]

\* The returns before the record is stored: <<>> when the request is accepted
airlineAddEarlyReturn(body) ==
    IF body = <<>>
    THEN <<[op |-> "airline-add", status |-> 400, msg |-> "Invalid JSON"]>>
    ELSE IF body[1].id = <<>> \/ body[1].iata = <<>> \/ body[1].name = <<>>
    THEN <<[op |-> "airline-add", status |-> 400,
            msg |-> "Missing required fields: id, iata, name"]>>
    ELSE IF airlineIdTaken(body[1].id[1])
    THEN <<[op |-> "airline-add", status |-> 400,
            msg |-> "Airline with that ID already exists"]>>
    ELSE <<>>

\* Airline a of an accepted request
airlineAddRecord(body) ==
    [id |-> body[1].id[1],
     iata |-> toUpper(trim(body[1].iata[1])),
     name |-> trim(body[1].name[1]),
     country |-> trim(IF body[1].country # <<>> THEN body[1].country[1] ELSE <<>>),
     active |-> IF body[1].active # <<>> THEN body[1].active[1] ELSE TRUE]

\* index = airlines.size(); push_back(a); both index maps
airlineInsert(a) ==
    LET index == Len(airlines) + 1
    IN  /\ airlines' = Append(airlines, a)
        /\ airlineIdToIndex' = MapPut(airlineIdToIndex, a.id, index)
        /\ airlineIataToIndex' =
             IF Indexable(a.iata) THEN MapPut(airlineIataToIndex, a.iata, index)
             ELSE airlineIataToIndex

AirlineAdd(body) ==
    /\ UNCHANGED <<airportVars, routeVars, thr>>
    /\ LET early == airlineAddEarlyReturn(body)
       IN  IF early # <<>>
           THEN resp' = early[1] /\ UNCHANGED airlineVars
           ELSE LET a == airlineAddRecord(body)
                IN  /\ Len(airlines) + Len(airports) < MaxRecords
                    /\ airlineInsert(a)
                    /\ resp' = [op |-> "airline-add", status |-> 200,
                                airline |-> AirlineEcho(a)]

airlineFixIataMap_KeepOld(map, oldIata, newIata, index) ==
    IF newIata # oldIata /\ Indexable(newIata) THEN MapPut(map, newIata, index) ELSE map

airlineFixIataMap_SkipEraseWhenNewEmpty(map, oldIata, newIata, index) ==
    IF newIata # oldIata
    THEN LET erased == IF newIata # <<>> THEN MapErase(map, oldIata) ELSE map
         IN  IF Indexable(newIata) THEN MapPut(erased, newIata, index) ELSE erased
    ELSE map

\* "Fix IATA map if changed": airlineIataToIndex after the update
airlineFixIataMap(map, oldIata, newIata, index) ==
    IF newIata # oldIata
    THEN LET erased == IF oldIata # <<>> THEN MapErase(map, oldIata) ELSE map
         IN  IF Indexable(newIata) THEN MapPut(erased, newIata, index) ELSE erased
    ELSE map

airlineUpdateFields_ClearUnsupplied(old, b) ==
    [id |-> old.id,
     iata |-> IF b.iata # <<>> THEN toUpper(trim(b.iata[1])) ELSE old.iata,
     name |-> IF b.name # <<>> THEN trim(b.name[1]) ELSE <<>>,
     country |-> IF b.country # <<>> THEN trim(b.country[1]) ELSE <<>>,
     active |-> IF b.active # <<>> THEN b.active[1] ELSE TRUE]

\* Airline& a after the assignments of the members the body has
airlineUpdateFields(old, b) ==
    [id |-> old.id,
     iata |-> IF b.iata # <<>> THEN toUpper(trim(b.iata[1])) ELSE old.iata,
     name |-> IF b.name # <<>> THEN trim(b.name[1]) ELSE old.name,
     country |-> IF b.country # <<>> THEN trim(b.country[1]) ELSE old.country,
     active |-> IF b.active # <<>> THEN b.active[1] ELSE old.active]

\* oldIata in the response of an update is the handler's local variable of
\* that name (the record's code before the update), not a member of the JSON.
AirlineUpdate(body) ==
    /\ UNCHANGED <<airlineIdToIndex, airportVars, routeVars, thr>>
    /\ IF body = <<>>
       THEN /\ resp' = [op |-> "airline-update", status |-> 400, msg |-> "Invalid JSON"]
            /\ UNCHANGED <<airlines, airlineIataToIndex>>
       ELSE LET b == body[1] IN
            IF b.id = <<>>
            THEN /\ resp' = [op |-> "airline-update", status |-> 400,
                             msg |-> "Missing required field: id"]
                 /\ UNCHANGED <<airlines, airlineIataToIndex>>
            ELSE IF b.id[1] \notin DOMAIN airlineIdToIndex
            THEN /\ resp' = [op |-> "airline-update", status |-> 404,
                             msg |-> "Airline ID not found"]
                 /\ UNCHANGED <<airlines, airlineIataToIndex>>
            ELSE LET index == airlineIdToIndex[b.id[1]]
                     old == airlines[index]
                     oldIata == old.iata
                     a == airlineUpdateFields(old, b)
                 IN  /\ airlines' = [airlines EXCEPT ![index] = a]
                     /\ airlineIataToIndex' =
                          airlineFixIataMap(airlineIataToIndex, oldIata, a.iata, index)
                     /\ resp' = [op |-> "airline-update", status |-> 200,
                                 airline |-> AirlineEcho(a), oldIata |-> oldIata]

-----------------------------------------------------------------------------
(* /airport-add and /airport-update *)

\* airportIdToIndex.find(id) != airportIdToIndex.end()
airportIdTaken(id) == id \in DOMAIN airportIdToIndex

AirportEcho(a) ==
    [id |-> a.id, iata |-> a.iata, name |-> a.name, city |-> a.city,
     country |-> a.country, latitude |-> a.latitude, longitude |-> a.longitude]

\* The returns before the record is stored: <<>> when the request is accepted
airportAddEarlyReturn(body) ==
    IF body = <<>>
    THEN <<[op |-> "airport-add", status |-> 400, msg |-> "Invalid JSON"]>>
    ELSE IF body[1].id = <<>> \/ body[1].iata = <<>> \/ body[1].name = <<>>
    THEN <<[op |-> "airport-add", status |-> 400,
            msg |-> "Missing required fields: id, iata, name"]>>
    ELSE IF airportIdTaken(body[1].id[1])
    THEN <<[op |-> "airport-add", status |-> 400,
            msg |-> "Airport with that ID already exists"]>>
    ELSE <<>>

\* Airport a of an accepted request
airportAddRecord(body) ==
    [id |-> body[1].id[1],
     iata |-> toUpper(trim(body[1].iata[1])),
     name |-> trim(body[1].name[1]),
     city |-> trim(IF body[1].city # <<>> THEN body[1].city[1] ELSE <<>>),
     country |-> trim(IF body[1].country # <<>> THEN body[1].country[1] ELSE <<>>),
     latitude |-> IF body[1].latitude # <<>> THEN body[1].latitude[1] ELSE 0,
     longitude |-> IF body[1].longitude # <<>> THEN body[1].longitude[1] ELSE 0]

\* index = airports.size(); push_back(a); both index maps
airportInsert(a) ==
    LET index == Len(airports) + 1
    IN  /\ airports' = Append(airports, a)
        /\ airportIdToIndex' = MapPut(airportIdToIndex, a.id, index)
        /\ airportIataToIndex' =
             IF Indexable(a.iata) THEN MapPut(airportIataToIndex, a.iata, index)
             ELSE airportIataToIndex

AirportAdd(body) ==
    /\ UNCHANGED <<airlineVars, routeVars, thr>>
    /\ LET early == airportAddEarlyReturn(body)
       IN  IF early # <<>>
           THEN resp' = early[1] /\ UNCHANGED airportVars
           ELSE LET a == airportAddRecord(body)
                IN  /\ Len(airlines) + Len(airports) < MaxRecords
                    /\ airportInsert(a)
                    /\ resp' = [op |-> "airport-add", status |-> 200,
                                airport |-> AirportEcho(a)]

airportFixIataMap_KeepOld(map, oldIata, newIata, index) ==
    IF newIata # oldIata /\ Indexable(newIata) THEN MapPut(map, newIata, index) ELSE map

\* airportIataToIndex after the update
airportFixIataMap(map, oldIata, newIata, index) ==
    IF newIata # oldIata
    THEN LET erased == IF oldIata # <<>> THEN MapErase(map, oldIata) ELSE map
         IN  IF Indexable(newIata) THEN MapPut(erased, newIata, index) ELSE erased
    ELSE map

\* Airport& a after the assignments of the members the body has
airportUpdateFields(old, b) ==
    [id |-> old.id,
     iata |-> IF b.iata # <<>> THEN toUpper(trim(b.iata[1])) ELSE old.iata,
     name |-> IF b.name # <<>> THEN trim(b.name[1]) ELSE old.name,
     city |-> IF b.city # <<>> THEN trim(b.city[1]) ELSE old.city,
     country |-> IF b.country # <<>> THEN trim(b.country[1]) ELSE old.country,
     latitude |-> IF b.latitude # <<>> THEN b.latitude[1] ELSE old.latitude,
     longitude |-> IF b.longitude # <<>> THEN b.longitude[1] ELSE old.longitude]

AirportUpdate(body) ==
    /\ UNCHANGED <<airportIdToIndex, airlineVars, routeVars, thr>>
    /\ IF body = <<>>
       THEN /\ resp' = [op |-> "airport-update", status |-> 400, msg |-> "Invalid JSON"]
            /\ UNCHANGED <<airports, airportIataToIndex>>
       ELSE LET b == body[1] IN
            IF b.id = <<>>
            THEN /\ resp' = [op |-> "airport-update", status |-> 400,
                             msg |-> "Missing required field: id"]
                 /\ UNCHANGED <<airports, airportIataToIndex>>
            ELSE IF b.id[1] \notin DOMAIN airportIdToIndex
            THEN /\ resp' = [op |-> "airport-update", status |-> 404,
                             msg |-> "Airport ID not found"]
                 /\ UNCHANGED <<airports, airportIataToIndex>>
            ELSE LET index == airportIdToIndex[b.id[1]]
                     old == airports[index]
                     oldIata == old.iata
                     a == airportUpdateFields(old, b)
                 IN  /\ airports' = [airports EXCEPT ![index] = a]
                     /\ airportIataToIndex' =
                          airportFixIataMap(airportIataToIndex, oldIata, a.iata, index)
                     /\ resp' = [op |-> "airport-update", status |-> 200,
                                 airport |-> AirportEcho(a), oldIata |-> oldIata]

-----------------------------------------------------------------------------
(* The entity store: the files and the add / update requests the model draws *)

MaxLoadRecords == 2

RawIatas == {<<>>, <<"a">>, <<" ", "b">>, BackslashN}

\* Rows with a repeated numeric ID, a repeated code, and a row that is skipped
StoreAirlineRows ==
    { AirlineRow(<<1>>, <<"a">>), AirlineRow(<<1>>, <<"b">>),
      AirlineRow(<<2>>, <<"A", " ">>), AirlineRow(<<>>, <<"c">>) }

StoreAirportRows ==
    { AirportRow(<<10>>, <<"a">>, 0, 0), AirportRow(<<10>>, <<"b">>, 0, 90),
      AirportRow(<<20>>, <<"A", " ">>, 0, 90), AirportRow(<<>>, <<"c">>, 0, 0) }

AirlineAddBodies ==
    {<<b>> : b \in [id : {<<1>>, <<2>>}, iata : {<<c>> : c \in RawIatas},
                    name : {<<<<" ", "x">>>>}, country : {<<>>}, active : {<<>>}]}
    \cup {<<>>,
          <<[id |-> <<1>>, iata |-> <<>>, name |-> <<<<"x">>>>, country |-> <<>>,
             active |-> <<>>]>>}

AirlineUpdateBodies ==
    {<<b>> : b \in [id : {<<1>>, <<2>>}, iata : Opt(RawIatas),
                    name : Opt({<<"y">>}), country : {<<>>}, active : {<<>>}]}
    \cup {<<>>,
          <<[id |-> <<>>, iata |-> <<>>, name |-> <<>>, country |-> <<>>,
             active |-> <<>>]>>,
          <<[id |-> <<7>>, iata |-> <<<<"a">>>>, name |-> <<>>, country |-> <<>>,
             active |-> <<>>]>>}

AirportAddBodies ==
    {<<b>> : b \in [id : {<<10>>, <<20>>}, iata : {<<c>> : c \in RawIatas},
                    name : {<<<<"p">>>>}, city : {<<>>}, country : {<<>>},
                    latitude : {<<>>}, longitude : {<<>>}]}
    \cup {<<>>,
          <<[id |-> <<>>, iata |-> <<<<"a">>>>, name |-> <<<<"p">>>>, city |-> <<>>,
             country |-> <<>>, latitude |-> <<>>, longitude |-> <<>>]>>}

AirportUpdateBodies ==
    {<<b>> : b \in [id : {<<10>>, <<20>>}, iata : Opt(RawIatas),
                    name : {<<>>}, city : Opt({<<"r">>}), country : {<<>>},
                    latitude : {<<>>}, longitude : {<<>>}]}
    \cup {<<>>,
          <<[id |-> <<>>, iata |-> <<>>, name |-> <<>>, city |-> <<>>,
             country |-> <<>>, latitude |-> <<>>, longitude |-> <<>>]>>,
          <<[id |-> <<70>>, iata |-> <<<<"a">>>>, name |-> <<>>, city |-> <<>>,
             country |-> <<>>, latitude |-> <<>>, longitude |-> <<>>]>>}

InitStore ==
    \E airlineRows \in SeqsUpTo(StoreAirlineRows, MaxLoadRecords),
       airportRows \in SeqsUpTo(StoreAirportRows, MaxLoadRecords) :
        /\ Len(airlineRows) + Len(airportRows) <= MaxRecords
        /\ InitLoaded(airlineRows, airportRows, <<>>)

NextStore ==
    \/ \E body \in AirlineAddBodies : AirlineAdd(body)
    \/ \E body \in AirlineUpdateBodies : AirlineUpdate(body)
    \/ \E body \in AirportAddBodies : AirportAdd(body)
    \/ \E body \in AirportUpdateBodies : AirportUpdate(body)

SpecStore == InitStore /\ [][NextStore]_vars

-----------------------------------------------------------------------------
(* Properties of the entity store (SpecStore) *)

WellFormedAdd(body) ==
    body # <<>> /\ body[1].id # <<>> /\ body[1].iata # <<>> /\ body[1].name # <<>>

\* C7: an airline-add (airport-add) whose numeric ID is already in the store
\* is answered "already exists" and changes neither the record array, nor
\* the ID index, nor the IATA index, so every getById returns what it did.
C7_DuplicateInsertRejected ==
    [][ /\ resp'.op = "airline-add" =>
             \A body \in AirlineAddBodies :
               ( /\ WellFormedAdd(body)
                 /\ body[1].id[1] \in DOMAIN airlineIdToIndex
                 /\ AirlineAdd(body) )
               => /\ resp'.status = 400
                  /\ resp'.msg = "Airline with that ID already exists"
                  /\ UNCHANGED airlineVars
                  /\ findAirlineById(body[1].id[1])' = findAirlineById(body[1].id[1])
        /\ resp'.op = "airport-add" =>
             \A body \in AirportAddBodies :
               ( /\ WellFormedAdd(body)
                 /\ body[1].id[1] \in DOMAIN airportIdToIndex
                 /\ AirportAdd(body) )
               => /\ resp'.status = 400
                  /\ resp'.msg = "Airport with that ID already exists"
                  /\ UNCHANGED airportVars
                  /\ findAirportById(body[1].id[1])' = findAirportById(body[1].id[1])
      ]_vars

\* A rejected duplicate insert into a store that holds records
C7_Witness ==
    /\ resp.op = "airline-add"
    /\ resp.status = 400
    /\ resp.msg = "Airline with that ID already exists"
    /\ Len(airlines) >= 1

AirlineIataChanged ==
    /\ resp.op = "airline-update" /\ resp.status = 200
    /\ resp.airline.iata # resp.oldIata

AirportIataChanged ==
    /\ resp.op = "airport-update" /\ resp.status = 200
    /\ resp.airport.iata # resp.oldIata

\* C9 (as claimed): after an update that changed a record's code from old to
\* a different non-empty code new, getByIata(old) finds nothing and
\* getByIata(new) finds a record with the updated record's numeric ID.
C9_NewCodeResolves_AnyNonEmpty ==
    /\ (AirlineIataChanged /\ resp.airline.iata # <<>>) =>
          /\ findAirlineByIata(resp.oldIata) = <<>>
          /\ findAirlineByIata(resp.airline.iata) # <<>>
          /\ findAirlineByIata(resp.airline.iata)[1].id = resp.airline.id
    /\ (AirportIataChanged /\ resp.airport.iata # <<>>) =>
          /\ findAirportByIata(resp.oldIata) = <<>>
          /\ findAirportByIata(resp.airport.iata) # <<>>
          /\ findAirportByIata(resp.airport.iata)[1].id = resp.airport.id

\* C9 (amended): the same for a new code that is neither empty nor the
\* placeholder "\N".
C9_NewCodeResolves ==
    /\ (AirlineIataChanged /\ Indexable(resp.airline.iata)) =>
          /\ findAirlineByIata(resp.oldIata) = <<>>
          /\ findAirlineByIata(resp.airline.iata) # <<>>
          /\ findAirlineByIata(resp.airline.iata)[1].id = resp.airline.id
    /\ (AirportIataChanged /\ Indexable(resp.airport.iata)) =>
          /\ findAirportByIata(resp.oldIata) = <<>>
          /\ findAirportByIata(resp.airport.iata) # <<>>
          /\ findAirportByIata(resp.airport.iata)[1].id = resp.airport.id

\* An airport whose code was changed from one indexable code to another
C9_Witness ==
    /\ AirportIataChanged
    /\ Indexable(resp.oldIata)
    /\ Indexable(resp.airport.iata)

\* C10 (as claimed): an update that changes a record's code to the empty code
\* leaves the index entry of the old code in place.
C10_OldEntryKept ==
    [][ /\ ( /\ resp'.op = "airline-update" /\ resp'.status = 200
             /\ resp'.airline.iata = <<>> /\ resp'.oldIata # <<>>
             /\ resp'.oldIata \in DOMAIN airlineIataToIndex )
           => resp'.oldIata \in DOMAIN airlineIataToIndex'
        /\ ( /\ resp'.op = "airport-update" /\ resp'.status = 200
             /\ resp'.airport.iata = <<>> /\ resp'.oldIata # <<>>
             /\ resp'.oldIata \in DOMAIN airportIataToIndex )
           => resp'.oldIata \in DOMAIN airportIataToIndex'
      ]_vars

\* C10 (amended): after an update that changed a record's code from a
\* non-empty code to the empty code, the IATA index holds no entry for the
\* old code and none for the empty code.
C10_OldEntryRemoved ==
    /\ (AirlineIataChanged /\ resp.airline.iata = <<>>) =>
          /\ resp.oldIata \notin DOMAIN airlineIataToIndex
          /\ <<>> \notin DOMAIN airlineIataToIndex
    /\ (AirportIataChanged /\ resp.airport.iata = <<>>) =>
          /\ resp.oldIata \notin DOMAIN airportIataToIndex
          /\ <<>> \notin DOMAIN airportIataToIndex

\* An airline whose indexable code was changed to the empty code
C10_Witness ==
    /\ AirlineIataChanged
    /\ resp.airline.iata = <<>>
    /\ Indexable(resp.oldIata)

-----------------------------------------------------------------------------
(* Concurrent request handlers (SpecConc).  main() runs the handlers on a    *)
(* pool of worker threads (app.multithreaded()) and no handler takes a lock: *)
(* a handler is a sequence of accesses to the shared containers, and the     *)
(* accesses of two threads interleave.  Each handler is cut where it passes  *)
(* from one access to the next one that matters; thr[t] holds the position   *)
(* of thread t and the locals it carries over.  The interleavings of whole   *)
(* statements are among the outcomes of the unsynchronized accesses.         *)

MaxConcRecords == 4

ConcAirlineAddBodies ==
    {<<[id |-> <<i>>, iata |-> <<<<"b">>>>, name |-> <<<<"x">>>>, country |-> <<>>,
        active |-> <<>>]>> : i \in {1, 2}}

ConcAirportAddBodies ==
    {<<[id |-> <<i>>, iata |-> <<<<"b">>>>, name |-> <<<<"p">>>>, city |-> <<>>,
        country |-> <<>>, latitude |-> <<>>, longitude |-> <<>>]>> : i \in {10, 20}}

ConcRouteAddBodies ==
    {<<[airline_id |-> <<1>>, src_id |-> <<10>>, dst_id |-> <<d>>, stops |-> <<>>]>> :
        d \in {10, 20}}

ConcOneHopParams == {<<<<"a">>>>, <<<<"b">>>>}

Idle(t) == thr[t].pc = "idle"

Enter(t, local) == thr' = [thr EXCEPT ![t] = local]

Leave(t) == thr' = [thr EXCEPT ![t] = IdleThread]

\* /airline-add up to the ID check (line 643)
ConcAirlineAddCheck(t, body) ==
    /\ Idle(t)
    /\ UNCHANGED <<airlineVars, airportVars, routeVars>>
    /\ LET early == airlineAddEarlyReturn(body)
       IN  IF early # <<>>
           THEN resp' = early[1] /\ UNCHANGED thr
           ELSE /\ Enter(t, [pc |-> "airline-add:insert", a |-> airlineAddRecord(body)])
                /\ UNCHANGED resp

\* /airline-add from the push_back on (lines 654-671)
ConcAirlineAddInsert(t) ==
    /\ thr[t].pc = "airline-add:insert"
    /\ Len(airlines) + Len(airports) < MaxConcRecords
    /\ airlineInsert(thr[t].a)
    /\ resp' = [op |-> "airline-add", status |-> 200, airline |-> AirlineEcho(thr[t].a)]
    /\ Leave(t)
    /\ UNCHANGED <<airportVars, routeVars>>

\* /airport-add up to the ID check (line 764)
ConcAirportAddCheck(t, body) ==
    /\ Idle(t)
    /\ UNCHANGED <<airlineVars, airportVars, routeVars>>
    /\ LET early == airportAddEarlyReturn(body)
       IN  IF early # <<>>
           THEN resp' = early[1] /\ UNCHANGED thr
           ELSE /\ Enter(t, [pc |-> "airport-add:insert", a |-> airportAddRecord(body)])
                /\ UNCHANGED resp

\* /airport-add from the push_back on (lines 777-796)
ConcAirportAddInsert(t) ==
    /\ thr[t].pc = "airport-add:insert"
    /\ Len(airlines) + Len(airports) < MaxConcRecords
    /\ airportInsert(thr[t].a)
    /\ resp' = [op |-> "airport-add", status |-> 200, airport |-> AirportEcho(thr[t].a)]
    /\ Leave(t)
    /\ UNCHANGED <<airlineVars, routeVars>>

\* /route-add up to the reference checks (lines 880-888)
ConcRouteAddCheck(t, body) ==
    /\ Idle(t)
    /\ UNCHANGED <<airlineVars, airportVars, routeVars>>
    /\ LET early == routeAddEarlyReturn(body)
       IN  IF early # <<>>
           THEN resp' = early[1] /\ UNCHANGED thr
           ELSE /\ Enter(t, [pc |-> "route-add:append", r |-> routeAddRecord(body)])
                /\ UNCHANGED resp

\* index = routes.size(); routes.push_back(r); (lines 896-897)
ConcRouteAddAppend(t) ==
    /\ thr[t].pc = "route-add:append"
    /\ Len(routes) < MaxRoutes
    /\ routes' = Append(routes, thr[t].r)
    /\ Enter(t, [pc |-> "route-add:index", r |-> thr[t].r, index |-> Len(routes) + 1])
    /\ UNCHANGED <<airlineVars, airportVars, routesFromSrc, resp>>

\* routesFromSrc[srcId].push_back(index); (line 898) and the response
ConcRouteAddIndex(t) ==
    /\ thr[t].pc = "route-add:index"
    /\ routesFromSrc' = BucketPush(routesFromSrc, thr[t].r.srcAirportId, thr[t].index)
    /\ resp' = routeAddOk(thr[t].r)
    /\ Leave(t)
    /\ UNCHANGED <<airlineVars, airportVars, routes>>

\* /one-hop up to the resolution of both airports (lines 916-936)
ConcOneHopResolve(t, srcParam, dstParam) ==
    /\ Idle(t)
    /\ UNCHANGED <<airlineVars, airportVars, routeVars>>
    /\ LET early == oneHopEarlyReturn(srcParam, dstParam)
       IN  IF early # <<>>
           THEN resp' = early[1] /\ UNCHANGED thr
           ELSE /\ Enter(t, [pc |-> "one-hop:search",
                             srcAirport |-> findAirportByIata(srcParam[1])[1],
                             dstAirport |-> findAirportByIata(dstParam[1])[1]])
                /\ UNCHANGED resp

\* /one-hop: the search, the sort and the response (lines 947-1044)
ConcOneHopSearch(t) ==
    /\ thr[t].pc = "one-hop:search"
    /\ Len(oneHopSearch(thr[t].srcAirport, thr[t].dstAirport)) <= MaxItineraries
    /\ resp' \in oneHopAnswers(thr[t].srcAirport, thr[t].dstAirport)
    /\ Leave(t)
    /\ UNCHANGED <<airlineVars, airportVars, routeVars>>

InitConc ==
    InitLoaded(<< AirlineRow(<<1>>, <<"a">>) >>,
               << AirportRow(<<10>>, <<"a">>, 0, 0) >>, <<>>)

NextConc ==
    \E t \in Threads :
        \/ \E body \in ConcAirlineAddBodies : ConcAirlineAddCheck(t, body)
        \/ ConcAirlineAddInsert(t)
        \/ \E body \in ConcAirportAddBodies : ConcAirportAddCheck(t, body)
        \/ ConcAirportAddInsert(t)
        \/ \E body \in ConcRouteAddBodies : ConcRouteAddCheck(t, body)
        \/ ConcRouteAddAppend(t)
        \/ ConcRouteAddIndex(t)
        \/ \E srcParam \in ConcOneHopParams, dstParam \in ConcOneHopParams :
             ConcOneHopResolve(t, srcParam, dstParam)
        \/ ConcOneHopSearch(t)

SpecConc == InitConc /\ [][NextConc]_vars

-----------------------------------------------------------------------------
(* Properties claimed of the concurrent handlers (SpecConc) *)

\* A thread that has read the shared store for a write it has not finished
MidWrite(t) ==
    thr[t].pc \in {"airline-add:insert", "airport-add:insert",
                   "route-add:append", "route-add:index"}

\* Every Route position is in the bucket of its source airport
EveryRouteIndexed ==
    \A i \in 1..Len(routes) :
        /\ routes[i].srcAirportId \in DOMAIN routesFromSrc
        /\ \E n \in DOMAIN routesFromSrc[routes[i].srcAirportId] :
              routesFromSrc[routes[i].srcAirportId][n] = i

\* C6 (as claimed): no read handler takes a step while a writing handler is
\* between its first and its last access to the shared store, and so the
\* one-hop search never runs on a Route table holding a route that is not
\* yet in its adjacency bucket.
C6_ReadsExcludeWrites ==
    [][ \A t \in Threads :
          (thr[t].pc = "one-hop:search" /\ thr'[t].pc = "idle")
             => /\ \A w \in Threads : ~MidWrite(w)
                /\ EveryRouteIndexed
      ]_vars

UniqueIds(recs) == \A i, j \in 1..Len(recs) : recs[i].id = recs[j].id => i = j

\* C8 (as claimed): the add handlers never give two records of a store the
\* same numeric ID, however the requests of the worker threads interleave.
C8_InsertsKeepIdsUnique ==
    [][ (UniqueIds(airlines) /\ UniqueIds(airports))
           => (UniqueIds(airlines') /\ UniqueIds(airports')) ]_vars

-----------------------------------------------------------------------------
(* Properties of the IATA and ID indexes (SpecStore) *)

\* C11 (as claimed, for the codes that get an index entry): every code that
\* is neither empty nor the placeholder and is carried by at least one record
\* has an index entry, and getByIata of it returns a record carrying it.
C11_CarriedCodeResolves ==
    /\ \A i \in 1..Len(airlines) :
          Indexable(airlines[i].iata) =>
             /\ findAirlineByIata(airlines[i].iata) # <<>>
             /\ findAirlineByIata(airlines[i].iata)[1].iata = airlines[i].iata
    /\ \A i \in 1..Len(airports) :
          Indexable(airports[i].iata) =>
             /\ findAirportByIata(airports[i].iata) # <<>>
             /\ findAirportByIata(airports[i].iata)[1].iata = airports[i].iata

-----------------------------------------------------------------------------
(* Properties of /route-add (Spec) *)

NamesUnknownId(body) ==
    /\ body # <<>>
    /\ body[1].airline_id # <<>> /\ body[1].src_id # <<>> /\ body[1].dst_id # <<>>
    /\ \/ body[1].airline_id[1] \notin DOMAIN airlineIdToIndex
       \/ body[1].src_id[1] \notin DOMAIN airportIdToIndex
       \/ body[1].dst_id[1] \notin DOMAIN airportIdToIndex

\* C12: a route-add that names an airline ID, source airport ID or
\* destination airport ID that is not in the store is answered 400 "Unknown
\* ..." and leaves the Route table and the adjacency index as they were: no
\* route is appended, no bucket is changed and no bucket is created.
C12_InvalidReferenceNoEffect ==
    [][ resp'.op = "route-add" =>
          \A body \in {b \in RouteAddBodies : NamesUnknownId(b)} :
             RouteAdd(body)
             => /\ resp'.status = 400
                /\ resp'.msg \in {"Unknown airline_id", "Unknown src_id", "Unknown dst_id"}
                /\ routes' = routes
                /\ routesFromSrc' = routesFromSrc
                /\ DOMAIN routesFromSrc' = DOMAIN routesFromSrc
      ]_vars

\* A route-add rejected for its destination, which has no bucket, while the
\* Route table holds routes and could take one more
C12_Witness ==
    /\ resp.op = "route-add" /\ resp.status = 400 /\ resp.msg = "Unknown dst_id"
    /\ Len(routes) >= 1 /\ Len(routes) < MaxRoutes
    /\ \A s \in DOMAIN routesFromSrc : s \in DOMAIN airportIdToIndex

-----------------------------------------------------------------------------
(* Report helpers and the /airline-routes and /airport-routes handlers *)

\* counts[k] += 1 on a std::map<int,int>: operator[] inserts k with value 0
MapInc(counts, k) ==
    MapPut(counts, k, (IF k \in DOMAIN counts THEN counts[k] ELSE 0) + 1)

\* The loop of countRoutesByAirline from Route table position i on
RECURSIVE countRoutesByAirlineFrom(_, _, _)
countRoutesByAirlineFrom(i, airlineId, counts) ==
    IF i > Len(routes) THEN counts
    ELSE LET r == routes[i]
         IN  IF r.airlineId # airlineId
             THEN countRoutesByAirlineFrom(i + 1, airlineId, counts)
             ELSE countRoutesByAirlineFrom(i + 1, airlineId,
                    MapInc(MapInc(counts, r.srcAirportId), r.dstAirportId))

countRoutesByAirline_SourcesOnly(airlineId) ==
    LET mine == {i \in 1..Len(routes) : routes[i].airlineId = airlineId}
    IN  [k \in {routes[i].srcAirportId : i \in mine} |->
           Cardinality({i \in mine : routes[i].srcAirportId = k})]

\* airportId -> routeCount, both ends of every route of the airline counted
countRoutesByAirline(airlineId) == countRoutesByAirlineFrom(1, airlineId, EmptyMap)

\* The loop of countRoutesByAirport from Route table position i on
RECURSIVE countRoutesByAirportFrom(_, _, _)
countRoutesByAirportFrom(i, airportId, counts) ==
    IF i > Len(routes) THEN counts
    ELSE LET r == routes[i]
         IN  IF r.srcAirportId = airportId \/ r.dstAirportId = airportId
             THEN countRoutesByAirportFrom(i + 1, airportId, MapInc(counts, r.airlineId))
             ELSE countRoutesByAirportFrom(i + 1, airportId, counts)

\* airlineId -> routeCount of the routes touching the airport
countRoutesByAirport(airportId) == countRoutesByAirportFrom(1, airportId, EmptyMap)

\* The (first, second) pairs of a std::map<int,int> in iteration order, which
\* is the ascending order of the keys
RECURSIVE MapEntries(_)
MapEntries(counts) ==
    IF DOMAIN counts = {} THEN <<>>
    ELSE LET k == CHOOSE x \in DOMAIN counts : \A y \in DOMAIN counts : x <= y
         IN  <<[first |-> k, second |-> counts[k]]>> \o MapEntries(MapErase(counts, k))

\* std::sort(v.begin(), v.end(), a.count > b.count)
StdSortByCountDesc(v) == StdSortBy(v, [i \in 1..Len(v) |-> 0 - v[i].count])

\* std::vector<AirportCount> v as filled from the map, before the sort
airlineRoutesVector(counts) ==
    LET e == MapEntries(counts)
    IN  [i \in 1..Len(e) |-> [airportId |-> e[i].first, count |-> e[i].second]]

\* The "airports" list of the response
airlineRoutesRender(v) ==
    JsonList([i \in 1..Len(v) |->
      IF v[i].airportId \notin DOMAIN airportIdToIndex THEN <<>>
      ELSE LET ap == airports[airportIdToIndex[v[i].airportId]]
           IN  << [airport_id |-> ap.id, iata |-> ap.iata, name |-> ap.name,
                   city |-> ap.city, country |-> ap.country,
                   route_count |-> v[i].count] >>])

\* The returns before the count: <<>> when the airline is found
airlineRoutesEarlyReturn(param) ==
    IF param = <<>>
    THEN <<[op |-> "airline-routes", status |-> 400,
            msg |-> "Missing 'iata' query parameter"]>>
    ELSE IF findAirlineByIata(param[1]) = <<>>
    THEN <<[op |-> "airline-routes", status |-> 404, msg |-> "Airline not found"]>>
    ELSE <<>>

\* The responses the handler may give for a found airline, one for each
\* outcome of the sort.  counts and v are the handler's local variables of
\* those names (v after the sort), not members of the JSON.
airlineRoutesAnswers(airline) ==
    LET counts == countRoutesByAirline(airline.id)
    IN  {[op |-> "airline-routes", status |-> 200,
          airline |-> [id |-> airline.id, iata |-> airline.iata, name |-> airline.name],
          airports |-> airlineRoutesRender(v),
          counts |-> counts,
          v |-> v] : v \in StdSortByCountDesc(airlineRoutesVector(counts))}

AirlineRoutes(param) ==
    /\ UNCHANGED <<airlineVars, airportVars, routeVars, thr>>
    /\ LET early == airlineRoutesEarlyReturn(param)
       IN  IF early # <<>> THEN resp' = early[1]
           ELSE resp' \in airlineRoutesAnswers(findAirlineByIata(param[1])[1])

\* std::vector<AirlineCount> v as filled from the map, before the sort
airportRoutesVector(counts) ==
    LET e == MapEntries(counts)
    IN  [i \in 1..Len(e) |-> [airlineId |-> e[i].first, count |-> e[i].second]]

\* The "airlines" list of the response
airportRoutesRender(v) ==
    JsonList([i \in 1..Len(v) |->
      IF v[i].airlineId \notin DOMAIN airlineIdToIndex THEN <<>>
      ELSE LET al == airlines[airlineIdToIndex[v[i].airlineId]]
           IN  << [airline_id |-> al.id, iata |-> al.iata, name |-> al.name,
                   country |-> al.country, route_count |-> v[i].count] >>])

\* The returns before the count: <<>> when the airport is found
airportRoutesEarlyReturn(param) ==
    IF param = <<>>
    THEN <<[op |-> "airport-routes", status |-> 400,
            msg |-> "Missing 'iata' query parameter"]>>
    ELSE IF findAirportByIata(param[1]) = <<>>
    THEN <<[op |-> "airport-routes", status |-> 404, msg |-> "Airport not found"]>>
    ELSE <<>>

\* The responses the handler may give for a found airport
airportRoutesAnswers(airport) ==
    LET counts == countRoutesByAirport(airport.id)
    IN  {[op |-> "airport-routes", status |-> 200,
          airport |-> [id |-> airport.id, iata |-> airport.iata, name |-> airport.name,
                       city |-> airport.city, country |-> airport.country],
          airlines |-> airportRoutesRender(v),
          counts |-> counts,
          v |-> v] : v \in StdSortByCountDesc(airportRoutesVector(counts))}

AirportRoutes(param) ==
    /\ UNCHANGED <<airlineVars, airportVars, routeVars, thr>>
    /\ LET early == airportRoutesEarlyReturn(param)
       IN  IF early # <<>> THEN resp' = early[1]
           ELSE resp' \in airportRoutesAnswers(findAirportByIata(param[1])[1])

-----------------------------------------------------------------------------
(* The reports over the route graph: the data files of Init, routes added   *)
(* by /route-add, and the report requests the model draws                   *)

AirlineRoutesParams == Opt({<<"a">>, <<"z">>})

AirportRoutesParams == Opt({<<"a">>, <<"B">>, <<"c">>, <<"z">>})

NextReport ==
    \/ \E body \in RouteAddBodies : RouteAdd(body)
    \/ \E param \in AirlineRoutesParams : AirlineRoutes(param)
    \/ \E param \in AirportRoutesParams : AirportRoutes(param)

SpecReport == Init /\ [][NextReport]_vars

-----------------------------------------------------------------------------
(* Properties of the reports (SpecReport) *)

AirlineRoutesAnswered == resp.op = "airline-routes" /\ resp.status = 200

AirportRoutesAnswered == resp.op = "airport-routes" /\ resp.status = 200

RECURSIVE SumCounts(_)
SumCounts(counts) ==
    IF DOMAIN counts = {} THEN 0
    ELSE LET k == CHOOSE x \in DOMAIN counts : TRUE
         IN  counts[k] + SumCounts(MapErase(counts, k))

RoutesOfAirline(a) == {i \in 1..Len(routes) : routes[i].airlineId = a}

\* C13: for every airline ID (of the store or named by a route) the counts of
\* countRoutesByAirline add up to twice the number of routes of that airline,
\* whatever the routes: source = destination, airports absent from the store;
\* and so do the counts a /airline-routes request worked from.
C13_CountsSumToTwiceTheRoutes ==
    /\ \A a \in (DOMAIN airlineIdToIndex) \cup {routes[i].airlineId : i \in 1..Len(routes)} :
          SumCounts(countRoutesByAirline(a)) = 2 * Cardinality(RoutesOfAirline(a))
    /\ AirlineRoutesAnswered =>
          SumCounts(resp.counts) = 2 * Cardinality(RoutesOfAirline(resp.airline.id))

\* An answered /airline-routes for an airline with a route from an airport to
\* itself and a route naming an airport that is not in the store
C13_Witness ==
    /\ AirlineRoutesAnswered
    /\ \E i, j \in RoutesOfAirline(resp.airline.id) :
          /\ routes[i].srcAirportId = routes[i].dstAirportId
          /\ routes[j].dstAirportId \notin DOMAIN airportIdToIndex
    /\ \E i \in 1..Len(routes) : routes[i].airlineId # resp.airline.id

Least(S) == CHOOSE x \in S : \A y \in S : x <= y

\* When the scan of countRoutesByAirline(a) first meets airport k: the source
\* of route i is met at step 2i - 1, its destination at step 2i
FirstSeenAirport(a, k) ==
    Least({2 * i - 1 : i \in {j \in RoutesOfAirline(a) : routes[j].srcAirportId = k}}
          \cup {2 * i : i \in {j \in RoutesOfAirline(a) : routes[j].dstAirportId = k}})

\* When the scan of countRoutesByAirport(p) first meets airline a
FirstSeenAirline(p, a) ==
    Least({i \in RoutesOfAirline(a) :
             routes[i].srcAirportId = p \/ routes[i].dstAirportId = p})

\* C14 (as claimed): the sorted result of an aggregator is in descending
\* order of count, and entries of equal count are in the order in which the
\* scan of the Route table first met their keys.
C14_DescendingTiesInScanOrder ==
    /\ AirlineRoutesAnswered =>
          \A k, l \in 1..Len(resp.v) :
             k < l =>
               /\ resp.v[k].count >= resp.v[l].count
               /\ resp.v[k].count = resp.v[l].count =>
                    FirstSeenAirport(resp.airline.id, resp.v[k].airportId)
                      < FirstSeenAirport(resp.airline.id, resp.v[l].airportId)
    /\ AirportRoutesAnswered =>
          \A k, l \in 1..Len(resp.v) :
             k < l =>
               /\ resp.v[k].count >= resp.v[l].count
               /\ resp.v[k].count = resp.v[l].count =>
                    FirstSeenAirline(resp.airport.id, resp.v[k].airlineId)
                      < FirstSeenAirline(resp.airport.id, resp.v[l].airlineId)

\* C15 (as claimed): the rendered list of an aggregator holds exactly one
\* element for each counted ID that resolves to a record, in the sorted
\* order, and nothing (no element at all) for a counted ID that does not
\* resolve: its length is the number of resolvable counted IDs.
C15_RenderedDropsUnresolvable ==
    /\ AirlineRoutesAnswered =>
          LET resolvable ==
                SelectSeq(resp.v, LAMBDA e : e.airportId \in DOMAIN airportIdToIndex)
          IN  /\ Len(resp.airports) = Len(resolvable)
              /\ \A k \in 1..Len(resolvable) :
                    /\ resp.airports[k] # <<>>
                    /\ resp.airports[k][1].airport_id = resolvable[k].airportId
                    /\ resp.airports[k][1].route_count = resolvable[k].count
    /\ AirportRoutesAnswered =>
          LET resolvable ==
                SelectSeq(resp.v, LAMBDA e : e.airlineId \in DOMAIN airlineIdToIndex)
          IN  /\ Len(resp.airlines) = Len(resolvable)
              /\ \A k \in 1..Len(resolvable) :
                    /\ resp.airlines[k] # <<>>
                    /\ resp.airlines[k][1].airline_id = resolvable[k].airlineId
                    /\ resp.airlines[k][1].route_count = resolvable[k].count

-----------------------------------------------------------------------------
(* The frame of the update handlers (SpecStore) *)

NamesAnId(body) == body # <<>> /\ body[1].id # <<>>

\* The step's response is the one the update handler gives to this body:
\* 404 for an ID that is not in the store, else 200 with the echo of the
\* record as updated from the body.  Every step AirlineUpdate(body)
\* (AirportUpdate(body)) satisfies it.
AirlineUpdateAnswered(body) ==
    IF body[1].id[1] \notin DOMAIN airlineIdToIndex THEN resp'.status = 404
    ELSE /\ resp'.status = 200
         /\ resp'.airline.id = airlines[airlineIdToIndex[body[1].id[1]]].id
         /\ resp'.airline = AirlineEcho(airlineUpdateFields(
                                airlines[airlineIdToIndex[body[1].id[1]]], body[1]))

AirportUpdateAnswered(body) ==
    IF body[1].id[1] \notin DOMAIN airportIdToIndex THEN resp'.status = 404
    ELSE /\ resp'.status = 200
         /\ resp'.airport.id = airports[airportIdToIndex[body[1].id[1]]].id
         /\ resp'.airport = AirportEcho(airportUpdateFields(
                                airports[airportIdToIndex[body[1].id[1]]], body[1]))

\* C16: an airline-update (airport-update) whose ID is not in the store is
\* answered 404 and changes nothing; with an ID of the store it is answered
\* 200 and, for every body that is answered so, the step assigns only the
\* members that body has: the record keeps its
\* numeric ID and every member the body lacks, every other record of either
\* store stays as it was, and so do both ID indexes, the Route table and the
\* adjacency index.
C16_UpdateFrame ==
    [][ /\ resp'.op = "airline-update" =>
             /\ UNCHANGED <<airlineIdToIndex, airportVars, routeVars>>
             /\ Len(airlines') = Len(airlines)
             /\ resp'.status # 200 => UNCHANGED airlineVars
             /\ \A body \in AirlineUpdateBodies :
                   (NamesAnId(body) /\ AirlineUpdateAnswered(body)) =>
                     IF body[1].id[1] \notin DOMAIN airlineIdToIndex
                     THEN resp'.status = 404
                     ELSE LET index == airlineIdToIndex[body[1].id[1]]
                              b == body[1]
                          IN  /\ resp'.status = 200
                              /\ \A i \in 1..Len(airlines) :
                                    i # index => airlines'[i] = airlines[i]
                              /\ airlines'[index].id = airlines[index].id
                              /\ b.iata = <<>> =>
                                    airlines'[index].iata = airlines[index].iata
                              /\ b.name = <<>> =>
                                    airlines'[index].name = airlines[index].name
                              /\ b.country = <<>> =>
                                    airlines'[index].country = airlines[index].country
                              /\ b.active = <<>> =>
                                    airlines'[index].active = airlines[index].active
        /\ resp'.op = "airport-update" =>
             /\ UNCHANGED <<airportIdToIndex, airlineVars, routeVars>>
             /\ Len(airports') = Len(airports)
             /\ resp'.status # 200 => UNCHANGED airportVars
             /\ \A body \in AirportUpdateBodies :
                   (NamesAnId(body) /\ AirportUpdateAnswered(body)) =>
                     IF body[1].id[1] \notin DOMAIN airportIdToIndex
                     THEN resp'.status = 404
                     ELSE LET index == airportIdToIndex[body[1].id[1]]
                              b == body[1]
                          IN  /\ resp'.status = 200
                              /\ \A i \in 1..Len(airports) :
                                    i # index => airports'[i] = airports[i]
                              /\ airports'[index].id = airports[index].id
                              /\ b.iata = <<>> =>
                                    airports'[index].iata = airports[index].iata
                              /\ b.name = <<>> =>
                                    airports'[index].name = airports[index].name
                              /\ b.city = <<>> =>
                                    airports'[index].city = airports[index].city
                              /\ b.country = <<>> =>
                                    airports'[index].country = airports[index].country
                              /\ b.latitude = <<>> =>
                                    airports'[index].latitude = airports[index].latitude
                              /\ b.longitude = <<>> =>
                                    airports'[index].longitude = airports[index].longitude
      ]_vars

\* An airline whose name alone was updated, in a store of two airlines
C16_Witness ==
    /\ resp.op = "airline-update" /\ resp.status = 200
    /\ resp.airline.name = <<"y">>
    /\ resp.airline.iata = resp.oldIata /\ Indexable(resp.oldIata)
    /\ Len(airlines) = 2
    /\ \E i \in 1..Len(airlines) : airlines[i].name # <<"y">>

-----------------------------------------------------------------------------
(* Airlines of the legs of a one-hop response (Spec) *)

\* The airline member an itinerary must have for a leg flown by airlineId:
\* absent when the ID is not in the store, else the record of that ID
AirlineMember(airlineId) ==
    IF airlineId \notin DOMAIN airlineIdToIndex THEN <<>>
    ELSE LET al == airlines[airlineIdToIndex[airlineId]]
         IN  <<[id |-> al.id, iata |-> al.iata, name |-> al.name]>>

\* C17: a one-hop response holds an itinerary for every resolvable chain of
\* zero-stop routes whether or not the airline IDs of its legs are in the
\* store (as many itineraries as there are such chains), and in each
\* itinerary the airline1 (airline2) member is absent exactly when the
\* airline ID of the first (second) leg is not in the store.
C17_UnknownAirlineStillReturned ==
    OneHopAnswered =>
        /\ Len(resp.routes)
             = Cardinality(ResolvableChains(resp.source.id, resp.destination.id))
        /\ \A k \in 1..Len(resp.routes) :
              /\ resp.routes[k] # <<>>
              /\ resp.routes[k][1].airline1
                   = AirlineMember(routes[resp.routes[k][1].leg1Route].airlineId)
              /\ resp.routes[k][1].airline2
                   = AirlineMember(routes[resp.routes[k][1].leg2Route].airlineId)

\* An answered search with an itinerary whose second leg is flown by an
\* airline that is not in the store, the first leg by one that is
C17_Witness ==
    /\ OneHopAnswered
    /\ \E k \in 1..Len(resp.routes) :
          /\ resp.routes[k] # <<>>
          /\ resp.routes[k][1].airline1 # <<>>
          /\ resp.routes[k][1].airline2 = <<>>
          /\ routes[resp.routes[k][1].leg2Route].airlineId \notin DOMAIN airlineIdToIndex

-----------------------------------------------------------------------------
(* Index entries and the records they point to (SpecStore) *)

\* C18: every entry code -> index of an IATA index points into the record
\* array, to a record whose IATA code is that code, and every entry
\* id -> index of an ID index points into the record array, to a record
\* whose numeric ID is that id.
C18_IndexEntriesNotStale ==
    /\ \A c \in DOMAIN airlineIataToIndex :
          /\ airlineIataToIndex[c] \in 1..Len(airlines)
          /\ airlines[airlineIataToIndex[c]].iata = c
    /\ \A id \in DOMAIN airlineIdToIndex :
          /\ airlineIdToIndex[id] \in 1..Len(airlines)
          /\ airlines[airlineIdToIndex[id]].id = id
    /\ \A c \in DOMAIN airportIataToIndex :
          /\ airportIataToIndex[c] \in 1..Len(airports)
          /\ airports[airportIataToIndex[c]].iata = c
    /\ \A id \in DOMAIN airportIdToIndex :
          /\ airportIdToIndex[id] \in 1..Len(airports)
          /\ airports[airportIdToIndex[id]].id = id

\* An airline was moved from a code it shared with another airline to a new
\* code: the index holds the new entry and none for the code the other
\* airline still carries
C18_Witness ==
    /\ AirlineIataChanged
    /\ Indexable(resp.oldIata) /\ Indexable(resp.airline.iata)
    /\ resp.airline.iata \in DOMAIN airlineIataToIndex
    /\ resp.oldIata \notin DOMAIN airlineIataToIndex
    /\ \E i \in 1..Len(airlines) : airlines[i].iata = resp.oldIata

=============================================================================
